---- MODULE Spec2Model ----
(***************************************************************************)
(* A model of WorkKnow's resilient paginated fetch of GitHub Actions       *)
(* workflow runs: request_with_caution (retry on transport exception),     *)
(* request_json_from_github_with_caution (retry on non-success status),    *)
(* request_json_from_github (pagination, rate-limit checks, telemetry)     *)
(* and the repository loop of the download command.                        *)
(*                                                                         *)
(* The program is sequential and blocking; the variable pc is its position *)
(* and every action is the code between two positions.  Every HTTP GET is  *)
(* one step whose outcome the server chooses: a raised transport exception *)
(* or a response (status, body, Link relations).                           *)
(***************************************************************************)
EXTENDS Integers, Sequences, FiniteSets, TLC

\* ---------------------------------------------------------------- bounds
\* largest maximum_retries a caller passes, most pages a server has,
\* most repository URLs given to download
MaxRetries == 2
MaxPages == 3
MaxRepos == 2
\* most page requests one fetch makes in the model (a server error that carries
\* a "next" relation makes the code request the same page again, without end)
MaxPageRequests == 4
\* largest backoff factor and largest number of retries given to a direct
\* call of calculate_backoff_sleep_time
MaxBackoffFactor == 3
MaxRetryNumber == 5

\* ------------------------------------------------------------- constants
\* constants.github: the members request.py reads.  constants.py sets
\* Page_Start; the values of Wait_In_Seconds and Success_Response are the ones
\* request.py states where it uses them (the sleep schedule 1, 2, 4, ... and
\* the success status 200) and the tests assert (1 + 2, 1 + 2 + 4 seconds)
Page_Start == 2
Wait_In_Seconds == 1
Success_Response == 200
\* a status the server answers instead of success (request.py:278)
Server_Error == 502
\* constants.rate
Extra_Seconds == 2
Threshold == 10

\* ------------------------------------------------------ values and server
\* Python's None for a response: a response record with status 0
None == [status |-> 0, has_runs |-> FALSE, runs |-> 0, next |-> FALSE]

\* the page a GET asks for: the page parameter is absent (0) on the first request
RequestedPage(params_page) == IF params_page = 0 THEN 1 ELSE params_page

\* what a server with last_page pages may answer to a GET for page p:
\* a success whose workflow_runs (when the key is there) is page p's batch and
\* whose Link header has "next" exactly before the last page, or a server
\* error whose body is an error envelope without workflow_runs (as in
\* tests/test_request.py:84) and whose Link header is arbitrary
ServerResponses(p, last_page) ==
    {[status |-> Success_Response, has_runs |-> h,
      runs |-> IF h THEN p ELSE 0, next |-> p < last_page] : h \in BOOLEAN}
    \cup
    {[status |-> Server_Error, has_runs |-> FALSE, runs |-> 0, next |-> n] :
        n \in BOOLEAN}

\* ------------------------------------------------------------ pure helpers
RECURSIVE Pow2(_)
Pow2(n) == IF n <= 0 THEN 1 ELSE 2 * Pow2(n - 1)

\* a variant that doubles once too often
calculate_backoff_sleep_time_doubled(backoff_factor, number_of_retries) ==
    backoff_factor * Pow2(number_of_retries)

\* a variant that grows by the factor with every retry
calculate_backoff_sleep_time_linear(backoff_factor, number_of_retries) ==
    backoff_factor * number_of_retries

\* a variant that takes a number of retries below 1 for 1
calculate_backoff_sleep_time_floor(backoff_factor, number_of_retries) ==
    IF number_of_retries >= 1
      THEN backoff_factor * Pow2(number_of_retries - 1)
      ELSE [num |-> backoff_factor, den |-> 1]

\* backoff_factor * (2 ** (number_of_retries - 1)) (request.py:163-169): an
\* integer for a number of retries of 1 or more; below 1 the exponent is
\* negative, 2 ** e is the float 1 / 2^(-e), and the product is the fraction
\* num / den. Nothing in the function raises.
calculate_backoff_sleep_time(backoff_factor, number_of_retries) ==
    IF number_of_retries >= 1
      THEN backoff_factor * Pow2(number_of_retries - 1)
      ELSE [num |-> backoff_factor, den |-> Pow2(1 - number_of_retries)]

\* ------------------------------------------------------------------ state
VARIABLES
    pc,         \* the position of the program; it ends at "done", or at "raised"
                \* (an exception leaves request_json_from_github), "exited"
                \* (sys.exit) or "rate_limit_raised" (the rate-limit monitor raised)
    mode,       \* "fetch": request_json_from_github is called directly (as the
                \* tests do); "download": the download command runs; "unbounded":
                \* the direct call again, followed for any number of page
                \* requests and without the observation; "backoff":
                \* calculate_backoff_sleep_time is called directly
    calc,       \* the direct calls of calculate_backoff_sleep_time: the
                \* arguments and the values returned so far
    Maximum_Request_Retries,  \* constants.github's default retry budget
    last_page,  \* the number of pages the server has for the current URL
    rwc,        \* the frame of request_with_caution
    rwcRet,     \* the tuple the last call of request_with_caution returned
    jc,         \* the frame of request_json_from_github_with_caution
    pageRet,    \* the tuple its last call returned
    fj,         \* the frame of request_json_from_github
    fetchRet,   \* the tuple its last call returned
    rl,         \* the last rate-limit check: snapshot, value returned, seconds slept
    dl,         \* the frame of download
    obs         \* observation of the current fetch: GETs issued, seconds slept, ...
                \* (read by no action's guard or assignment to the program's state)

vars == <<pc, mode, calc, Maximum_Request_Retries, last_page, rwc, rwcRet, jc, pageRet,
          fj, fetchRet, rl, dl, obs>>

\* the tuple (valid, retries, sleep, response) the two cautious requesters
\* return, and the value of the model before any call has returned
Tuple4(valid, retries, sleep, response) ==
    [returned |-> TRUE, valid |-> valid, retries |-> retries, sleep |-> sleep,
     response |-> response]

NoReturn == [returned |-> FALSE, valid |-> FALSE, retries |-> 0, sleep |-> 0,
             response |-> None]

\* the tuple (valid, retries, sleep, json_responses) of request_json_from_github
FetchTuple(valid, retries, sleep, json_responses) ==
    [returned |-> TRUE, valid |-> valid, retries |-> retries, sleep |-> sleep,
     json_responses |-> json_responses]

NoFetchReturn == [returned |-> FALSE, valid |-> FALSE, retries |-> 0, sleep |-> 0,
                  json_responses |-> << >>]

rwcFrame0 == [maximum_retries |-> 0, response |-> None, valid_response |-> FALSE,
              request_retries_count |-> 1, running_sleep_time_in_seconds |-> 0,
              gets |-> 0, raised |-> 0]

jcFrame0 == [maximum_retries |-> 0, site |-> "initial",
             response_retries_count |-> 1, current_response_status_code |-> 0,
             running_sleep_time_in_seconds |-> 0, response |-> None,
             reattempts |-> 0]

fjFrame0 == [maximum_retries |-> 0, phase |-> "first", params_page |-> 0,
             valid |-> FALSE, response |-> None, json_responses |-> << >>,
             page |-> 0, requests |-> 1,
             initial_retry_count |-> 0, initial_sleep_time |-> 0,
             complete_retry_count |-> 0, complete_sleep_time |-> 0]

rl0 == [checked |-> FALSE, remaining |-> 0, wait |-> 0, returned |-> 0,
        sleeps |-> FALSE, slept |-> 0, raised |-> FALSE]

\* gets, slept and retried count the GETs, the back-off seconds and the
\* back-off sleeps (one before every retry) of the current page request, and
\* statuses lists what its GETs met: a status code, or 0 for a raised
\* exception; the other fields are about the whole fetch
obs0 == [gets |-> 0, slept |-> 0, retried |-> 0,
         only_errors |-> TRUE, all_valid |-> TRUE,
         page_requests |-> 0, sum_retries |-> 0, sum_sleep |-> 0,
         bad_payload |-> FALSE, rate_checks |-> 0, statuses |-> << >>]

dlFrame0 == [repo_urls |-> << >>, save |-> FALSE, results_dir_valid |-> FALSE,
             next |-> 1,
             record_list |-> << >>, dataframes_workflows |-> << >>,
             dataframes_commits |-> << >>, saved |-> << >>,
             could_not |-> << >>, invalid |-> {}, visited |-> << >>]

\* the sequences of parseable (TRUE) and unparseable (FALSE) repository URLs
RepoUrlLists == UNION {[1..n -> BOOLEAN] : n \in 0..MaxRepos}

\* no direct call of calculate_backoff_sleep_time
calc0 == [backoff_factor |-> 0, number_of_retries |-> 0, returned |-> <<>>]

\* before any call: the frames are empty (a frame is emptied again when its
\* function returns); the default retry budget is some positive number
InitFrames ==
    /\ Maximum_Request_Retries \in 1..MaxRetries
    /\ calc = calc0
    /\ rwc = rwcFrame0 /\ rwcRet = NoReturn
    /\ jc = jcFrame0 /\ pageRet = NoReturn
    /\ fetchRet = NoFetchReturn
    /\ rl = rl0
    /\ obs = obs0

\* request_json_from_github is called directly, with any maximum_retries,
\* against a server with any number of pages
Init ==
    /\ InitFrames
    /\ mode = "fetch"
    /\ pc = "rjfg_entry"
    /\ last_page \in 1..MaxPages
    /\ \E m \in 0..MaxRetries : fj = [fjFrame0 EXCEPT !.maximum_retries = m]
    /\ dl = dlFrame0

\* request_json_from_github is called directly, as in Init, and followed for
\* as long as it runs
InitUnbounded ==
    /\ InitFrames
    /\ mode = "unbounded"
    /\ pc = "rjfg_entry"
    /\ last_page \in 1..MaxPages
    /\ \E m \in 0..MaxRetries : fj = [fjFrame0 EXCEPT !.maximum_retries = m]
    /\ dl = dlFrame0

\* the download command is run on any list of repository URLs
InitDownload ==
    /\ InitFrames
    /\ mode = "download"
    /\ pc = "download_entry"
    /\ last_page = 1
    /\ fj = fjFrame0
    /\ \E urls \in RepoUrlLists, s \in BOOLEAN, d \in BOOLEAN :
           dl = [dlFrame0 EXCEPT !.repo_urls = urls, !.save = s,
                                 !.results_dir_valid = d]

\* the arguments of a direct call of calculate_backoff_sleep_time: a
\* non-negative factor, and a number of retries on either side of 1
BackoffFactors == 0..MaxBackoffFactor
RetryNumbers == (2 - MaxRetryNumber)..MaxRetryNumber

\* calculate_backoff_sleep_time is called directly, twice with one pair of
\* arguments; nothing else runs
InitBackoff ==
    /\ mode = "backoff"
    /\ pc = "backoff_entry"
    /\ Maximum_Request_Retries = 1
    /\ rwc = rwcFrame0 /\ rwcRet = NoReturn
    /\ jc = jcFrame0 /\ pageRet = NoReturn
    /\ fj = fjFrame0 /\ fetchRet = NoFetchReturn
    /\ last_page = 1
    /\ rl = rl0 /\ dl = dlFrame0 /\ obs = obs0
    /\ \E b \in BackoffFactors, n \in RetryNumbers :
           calc = [calc0 EXCEPT !.backoff_factor = b, !.number_of_retries = n]

\* one call of calculate_backoff_sleep_time(backoff_factor, number_of_retries)
\* (request.py:163-169); it returns a value, whatever the arguments
BackoffCall ==
    /\ pc \in {"backoff_entry", "backoff_called"}
    /\ calc' = [calc EXCEPT !.returned =
                   Append(@, calculate_backoff_sleep_time(calc.backoff_factor,
                                                          calc.number_of_retries))]
    /\ pc' = IF pc = "backoff_entry" THEN "backoff_called" ELSE "backoff_done"
    /\ UNCHANGED <<mode, Maximum_Request_Retries, last_page, rwc, rwcRet, jc,
                   pageRet, fj, fetchRet, rl, dl, obs>>

\* the observation is kept for the direct call only
Observed(o) == IF mode = "fetch" THEN o ELSE obs0

\* ------------------------------------------------- request_with_caution
\* the frame at entry (request.py:185-194)
RwcEntry(maximum_retries) ==
    [rwcFrame0 EXCEPT !.maximum_retries = maximum_retries]

\* a variant that allows one attempt more
RwcLoopCondition_extra(f) ==
    ~f.valid_response /\ f.request_retries_count <= f.maximum_retries + 1

\* a variant that always makes a first attempt
RwcLoopCondition_first(f) ==
    ~f.valid_response
    /\ (f.gets = 0 \/ f.request_retries_count <= f.maximum_retries)

\* a variant that goes on after a response
RwcLoopCondition_count(f) == f.request_retries_count <= f.maximum_retries

\* the loop condition (request.py:197)
RwcLoopCondition(f) ==
    ~f.valid_response /\ f.request_retries_count <= f.maximum_retries

\* the frame after a GET that returned response r (request.py:200-205)
RwcResponded(f, r) ==
    [f EXCEPT !.response = r, !.valid_response = TRUE, !.gets = @ + 1]

\* the frame after a GET that raised (request.py:206-239)
RwcRaised(f) ==
    LET sleep_time_in_seconds ==
            calculate_backoff_sleep_time(Wait_In_Seconds, f.request_retries_count)
    IN  [f EXCEPT !.running_sleep_time_in_seconds = @ + sleep_time_in_seconds,
                  !.request_retries_count = @ + 1,
                  !.gets = @ + 1, !.raised = @ + 1]

\* a variant that returns the counter without the final decrement
RwcResult_counter(f) ==
    Tuple4(f.response # None, f.request_retries_count,
           f.running_sleep_time_in_seconds, f.response)

\* the returned tuple (request.py:241-248)
RwcResult(f) ==
    Tuple4(f.response # None, f.request_retries_count - 1,
           f.running_sleep_time_in_seconds, f.response)

\* one trip of the loop: the GET and what follows it
RwcAttempt ==
    /\ pc = "rwc_loop"
    /\ RwcLoopCondition(rwc)
    /\ \/ \E r \in ServerResponses(RequestedPage(fj.params_page), last_page) :
              /\ rwc' = RwcResponded(rwc, r)
              /\ obs' = Observed([obs EXCEPT !.gets = @ + 1,
                                    !.statuses = Append(@, r.status),
                                    !.only_errors = @ /\ r.status = Server_Error,
                                    !.bad_payload = r.status = Success_Response
                                                    /\ ~r.has_runs])
       \/ /\ rwc' = RwcRaised(rwc)
          /\ obs' = Observed([obs EXCEPT !.gets = @ + 1,
                                !.statuses = Append(@, 0),
                                !.only_errors = FALSE,
                                !.retried = @ + 1,
                                !.slept = @ + calculate_backoff_sleep_time(
                                              Wait_In_Seconds, rwc.request_retries_count)])
    /\ UNCHANGED <<pc, mode, calc, Maximum_Request_Retries, last_page, rwcRet, jc,
                   pageRet, fj, fetchRet, rl, dl>>

\* the loop ends and the function returns to its caller
RwcReturn ==
    /\ pc = "rwc_loop"
    /\ ~RwcLoopCondition(rwc)
    /\ rwcRet' = RwcResult(rwc)
    /\ pc' = "jc_after_rwc"
    /\ UNCHANGED <<mode, calc, Maximum_Request_Retries, last_page, rwc, jc, pageRet, fj,
                   fetchRet, rl, dl, obs>>

\* --------------------------------- request_json_from_github_with_caution
\* the call: the frame at entry and the first call of request_with_caution
\* (request.py:266-268)
JcEntry(maximum_retries) ==
    [jcFrame0 EXCEPT !.maximum_retries = maximum_retries]

\* the tuple returned when request_with_caution was not valid
\* (request.py:269-270 and 340-341)
JcInvalidResult(ret) == Tuple4(ret.valid, ret.retries, ret.sleep, None)

\* the frame once the first response is there (request.py:274-282)
JcFirstResponse(f, ret) ==
    [f EXCEPT !.response = ret.response,
              !.response_retries_count = 1,
              !.current_response_status_code = ret.response.status,
              !.running_sleep_time_in_seconds = 0]

\* a variant that keeps the response of the attempt before
JcRetryResponse_stale(f, ret) ==
    [f EXCEPT !.current_response_status_code = ret.response.status,
              !.response_retries_count = @ + 1]

\* the frame once a re-attempt has a response (request.py:343-345)
JcRetryResponse(f, ret) ==
    [f EXCEPT !.response = ret.response,
              !.current_response_status_code = ret.response.status,
              !.response_retries_count = @ + 1]

\* a variant that stops one re-attempt early
JcLoopCondition_strict(f) ==
    /\ f.current_response_status_code # Success_Response
    /\ f.response_retries_count < f.maximum_retries

\* a variant that goes on after a success
JcLoopCondition_count(f) == f.response_retries_count <= f.maximum_retries

\* the condition of the status loop (request.py:286 and 302-305)
JcLoopCondition(f) ==
    /\ f.current_response_status_code # Success_Response
    /\ f.response_retries_count <= f.maximum_retries

\* a variant that sleeps the same time before every re-attempt
JcSlept_flat(f) ==
    [f EXCEPT !.running_sleep_time_in_seconds = @ + Wait_In_Seconds,
              !.site = "retry", !.reattempts = @ + 1]

\* the frame after the back-off sleep of one re-attempt (request.py:307-321);
\* reattempts counts the re-attempts the loop has begun
JcSlept(f) ==
    [f EXCEPT !.running_sleep_time_in_seconds =
                  @ + calculate_backoff_sleep_time(Wait_In_Seconds,
                                                   f.response_retries_count),
              !.site = "retry", !.reattempts = @ + 1]

\* a variant that takes any response that arrived as valid
JcValid_any(f) == f.response # None

\* the validity of the last response (request.py:349-353)
JcValid(f) == f.current_response_status_code = Success_Response

\* a variant that returns the counter without the final decrement
JcResult_counter(f) ==
    Tuple4(JcValid(f), f.response_retries_count,
           f.running_sleep_time_in_seconds, f.response)

\* the returned tuple (request.py:362)
JcResult(f) ==
    Tuple4(JcValid(f), f.response_retries_count - 1,
           f.running_sleep_time_in_seconds, f.response)

\* request_with_caution has returned to request_json_from_github_with_caution
JcAfterRwc ==
    /\ pc = "jc_after_rwc"
    /\ IF ~rwcRet.valid
          THEN /\ pageRet' = JcInvalidResult(rwcRet)
               /\ pc' = "fj_after_page"
               /\ jc' = jcFrame0
          ELSE /\ jc' = IF jc.site = "initial"
                            THEN JcFirstResponse(jc, rwcRet)
                            ELSE JcRetryResponse(jc, rwcRet)
               /\ pc' = "jc_status_loop"
               /\ pageRet' = pageRet
    /\ rwcRet' = NoReturn
    /\ rwc' = rwcFrame0
    /\ UNCHANGED <<mode, calc, Maximum_Request_Retries, last_page, fj,
                   fetchRet, rl, dl, obs>>

\* one re-attempt on a non-success status: sleep, then request again
JcStatusRetry ==
    /\ pc = "jc_status_loop"
    /\ JcLoopCondition(jc)
    /\ jc' = JcSlept(jc)
    /\ obs' = Observed([obs EXCEPT !.retried = @ + 1,
                                   !.slept =
                           @ + JcSlept(jc).running_sleep_time_in_seconds
                             - jc.running_sleep_time_in_seconds])
    /\ rwc' = RwcEntry(jc.maximum_retries)
    /\ pc' = "rwc_loop"
    /\ UNCHANGED <<mode, calc, Maximum_Request_Retries, last_page, rwcRet, pageRet, fj,
                   fetchRet, rl, dl>>

\* the status loop ends and the function returns
JcReturn ==
    /\ pc = "jc_status_loop"
    /\ ~JcLoopCondition(jc)
    /\ pageRet' = JcResult(jc)
    /\ jc' = jcFrame0
    /\ pc' = "fj_after_page"
    /\ UNCHANGED <<mode, calc, Maximum_Request_Retries, last_page, rwc, rwcRet, fj,
                   fetchRet, rl, dl, obs>>

\* ---------------------------------------------- request_json_from_github
\* a variant that answers an empty batch when the key is missing
get_workflow_runs_lenient(response) ==
    [exits |-> FALSE, runs |-> response.runs]

\* get_workflow_runs: the workflow_runs of a body, or the exit of the process
\* when the key is missing (request.py:67-83)
get_workflow_runs(response) ==
    IF response.has_runs
        THEN [exits |-> FALSE, runs |-> response.runs]
        ELSE [exits |-> TRUE, runs |-> 0]

\* the call: counters and parameters (request.py:375-386), then the request of
\* the first page with the caller's maximum_retries (request.py:405-416)
FjEntry ==
    /\ pc = "rjfg_entry"
    /\ fj' = [fjFrame0 EXCEPT !.maximum_retries = fj.maximum_retries]
    /\ jc' = JcEntry(fj.maximum_retries)
    /\ rwc' = RwcEntry(fj.maximum_retries)
    /\ rwcRet' = NoReturn /\ pageRet' = NoReturn /\ fetchRet' = NoFetchReturn
    /\ rl' = rl0
    /\ obs' = obs0
    /\ pc' = "rwc_loop"
    /\ UNCHANGED <<mode, calc, Maximum_Request_Retries, last_page, dl>>

\* the frame once the tuple of the first page is assigned (request.py:405-421)
FjFirstAssigned(f, ret) ==
    [f EXCEPT !.valid = ret.valid, !.initial_retry_count = ret.retries,
              !.initial_sleep_time = ret.sleep, !.response = ret.response,
              !.json_responses = << >>]

\* the frame once the tuple of a later page is assigned (request.py:449-456)
FjNextAssigned(f, ret) ==
    [f EXCEPT !.valid = ret.valid, !.complete_retry_count = ret.retries,
              !.complete_sleep_time = ret.sleep, !.response = ret.response]

\* a variant that starts the remaining pages at page 1
FjFirstAppended_page1(f, runs) ==
    [f EXCEPT !.json_responses = Append(@, runs), !.page = Page_Start - 1]

\* the frame once the batch of the first page is kept (request.py:428-432)
FjFirstAppended(f, runs) ==
    [f EXCEPT !.json_responses = Append(@, runs), !.page = Page_Start]

\* the frame once the batch of a later page is kept (request.py:463-465)
FjNextAppended(f, runs) ==
    [f EXCEPT !.json_responses = Append(@, runs), !.page = @ + 1]

\* what one page request adds to the observation of the fetch
ObservePage(o, ret) ==
    [o EXCEPT !.page_requests = @ + 1, !.sum_retries = @ + ret.retries,
              !.sum_sleep = @ + ret.sleep, !.all_valid = @ /\ ret.valid]

\* a variant that goes on to the next page without a rate-limit check
FjAfterAppend_unchecked == "fj_pages_loop"

\* the position after the batch of a valid page is kept: the rate-limit check
\* (request.py:435-436 and 468-469)
FjAfterAppend == "rate_limit"

\* request_json_from_github_with_caution has returned
FjAfterPage ==
    /\ pc = "fj_after_page"
    /\ obs' = Observed(ObservePage(obs, pageRet))
    /\ LET f == IF fj.phase = "first" THEN FjFirstAssigned(fj, pageRet)
                                      ELSE FjNextAssigned(fj, pageRet)
           got == get_workflow_runs(f.response)
       IN  IF fj.phase = "first"
             THEN IF f.valid
                    THEN IF got.exits
                           THEN fj' = f /\ pc' = "exited"
                           ELSE /\ fj' = FjFirstAppended(f, got.runs)
                                /\ pc' = FjAfterAppend
                    ELSE fj' = f /\ pc' = "fj_return"
             ELSE \* logger.debug(response.headers) raises when response is None
                  IF f.response = None
                    THEN fj' = f /\ pc' = "raised"
                    ELSE IF f.valid
                           THEN IF got.exits
                                  THEN fj' = f /\ pc' = "exited"
                                  ELSE /\ fj' = FjNextAppended(f, got.runs)
                                       /\ pc' = FjAfterAppend
                           ELSE fj' = f /\ pc' = "fj_pages_loop"
    /\ pageRet' = NoReturn
    /\ UNCHANGED <<mode, calc, Maximum_Request_Retries, last_page, rwc, rwcRet, jc,
                   fetchRet, rl, dl>>

\* the head of the loop over the remaining pages (request.py:444-456): with a
\* "next" relation in the last response, request the page numbered page with
\* the default retry budget
FjHasNext(f) == f.response.next

FjPagesLoop ==
    /\ pc = "fj_pages_loop"
    /\ rl' = rl0
    /\ IF FjHasNext(fj)
          THEN /\ mode # "unbounded" => fj.requests < MaxPageRequests
               /\ fj' = [fj EXCEPT !.params_page = fj.page, !.phase = "next",
                                !.requests = IF @ < MaxPageRequests
                                               THEN @ + 1 ELSE @]
               /\ jc' = JcEntry(Maximum_Request_Retries)
               /\ rwc' = RwcEntry(Maximum_Request_Retries)
               /\ obs' = Observed([obs EXCEPT !.gets = 0, !.slept = 0,
                                                  !.retried = 0,
                                                  !.statuses = << >>])
               /\ pc' = "rwc_loop"
          ELSE /\ pc' = "fj_return"
               /\ UNCHANGED <<fj, jc, rwc, obs>>
    /\ UNCHANGED <<mode, calc, Maximum_Request_Retries, last_page, rwcRet, pageRet,
                   fetchRet, dl>>

\* the returned pages and the returned tuple (request.py:472-477)
FjPages(f) == f.json_responses

FjRetryCount(f) == f.initial_retry_count + f.complete_retry_count

FjSleepTime(f) == f.initial_sleep_time + f.complete_sleep_time

FjResult(f) == FetchTuple(f.valid, FjRetryCount(f), FjSleepTime(f), FjPages(f))

FjReturn ==
    /\ pc = "fj_return"
    /\ fetchRet' = FjResult(fj)
    /\ fj' = [fjFrame0 EXCEPT !.maximum_retries = fj.maximum_retries]
    /\ pc' = IF mode = "download" THEN "download_after_fetch" ELSE "done"
    /\ UNCHANGED <<mode, calc, Maximum_Request_Retries, last_page, rwc, rwcRet, jc,
                   pageRet, rl, dl, obs>>

\* ------------------------------------------------------ rate-limit monitor
\* the snapshots the rate-limit endpoint may answer: remaining requests, and
\* the seconds from now to the reset
RemainingValues == {5, 10, 50}
ResetDistances == {-5, 3}

\* a variant that also waits when remaining equals the threshold
RateLimitSleeps_inclusive(remaining) == remaining <= Threshold

\* the test that decides whether to wait (request.py:137)
RateLimitSleeps(remaining) == remaining < Threshold

\* a variant that waits without the extra seconds
RateLimitTotal_unpadded(distance) == distance

\* the seconds to wait: the distance to the reset and the padding
\* (request.py:131-136)
RateLimitTotal(distance) == distance + Extra_Seconds

\* get_rate_limit_wait_time_and_wait (request.py:129-144): the value returned,
\* whether time.sleep is called (with the value returned), the seconds slept,
\* and whether time.sleep raised on a negative argument
RateLimitWait(remaining, distance) ==
    LET total_sleep_time_elapsed == RateLimitTotal(distance)
        sleeps == RateLimitSleeps(remaining)
    IN  [returned |-> total_sleep_time_elapsed,
         sleeps |-> sleeps,
         slept |-> IF sleeps /\ total_sleep_time_elapsed >= 0
                     THEN total_sleep_time_elapsed ELSE 0,
         raises |-> sleeps /\ total_sleep_time_elapsed < 0]

\* get_rate_limit_details and get_rate_limit_wait_time_and_wait, after a page
\* (request.py:435-436, 468-469) and after a repository (main.py:258-259);
\* the GET of get_rate_limit_details is not guarded and may raise;
\* rate_checks counts the checks of the fetch
RateLimitCheck ==
    /\ pc \in {"rate_limit", "download_rate_limit"}
    /\ \/ /\ pc' = "rate_limit_raised"
          /\ UNCHANGED <<rl, dl>>
       \/ \E remaining \in RemainingValues, distance \in ResetDistances :
             LET w == RateLimitWait(remaining, distance)
             IN  /\ rl' = [checked |-> TRUE, remaining |-> remaining,
                           wait |-> distance, returned |-> w.returned,
                           sleeps |-> w.sleeps, slept |-> w.slept,
                           raised |-> w.raises]
                 /\ IF w.raises
                       THEN pc' = "rate_limit_raised" /\ dl' = dl
                       ELSE IF pc = "rate_limit"
                              THEN pc' = "fj_pages_loop" /\ dl' = dl
                              ELSE /\ pc' = "download_loop"
                                   /\ dl' = [dl EXCEPT !.next = @ + 1]
    /\ obs' = Observed([obs EXCEPT !.rate_checks = @ + 1])
    /\ UNCHANGED <<mode, calc, Maximum_Request_Retries, last_page, rwc, rwcRet, jc,
                   pageRet, fj, fetchRet>>

\* --------------------------------------------------------------- download
\* the start of the command (main.py:118-151): the rate-limit details are
\* requested once, unguarded
DownloadEntry ==
    /\ pc = "download_entry"
    /\ pc' \in {"download_loop", "rate_limit_raised"}
    /\ UNCHANGED <<mode, calc, Maximum_Request_Retries, last_page, rwc, rwcRet, jc,
                   pageRet, fj, fetchRet, rl, dl, obs>>

\* the loop takes the next of repo_urls (main.py:157); visited lists the
\* positions taken so far
DownloadVisited(d) == [d EXCEPT !.visited = Append(@, d.next)]

\* a variant that takes an unparseable URL again
DownloadSkipped_again(d) == d

\* the frame after an unparseable URL: nothing is done for it (main.py:159-160)
DownloadSkipped(d) == [d EXCEPT !.next = @ + 1]

\* the head of the loop over repo_urls (main.py:153-171): an unparseable URL is
\* skipped, a parseable one is fetched with the default retry budget
DownloadNext ==
    /\ pc = "download_loop"
    /\ rl' = rl0
    /\ IF dl.next > Len(dl.repo_urls)
          THEN /\ pc' = "done"
               /\ UNCHANGED <<dl, fj, last_page>>
          ELSE IF ~dl.repo_urls[dl.next]
                 THEN /\ dl' = DownloadSkipped(DownloadVisited(dl))
                      /\ pc' = "download_loop"
                      /\ UNCHANGED <<fj, last_page>>
                 ELSE /\ fj' = [fjFrame0 EXCEPT
                                   !.maximum_retries = Maximum_Request_Retries]
                      /\ last_page' \in 1..MaxPages
                      /\ pc' = "rjfg_entry"
                      /\ dl' = DownloadVisited(dl)
    /\ UNCHANGED <<mode, calc, Maximum_Request_Retries, rwc, rwcRet, jc, pageRet,
                   fetchRet, obs>>

\* a variant that tests the pages instead of the flag
DownloadProceeds_pages(ret) == ret.valid \/ ret.json_responses # << >>

\* the test of the fetch's outcome (main.py:176)
DownloadProceeds(ret) == ret.valid

\* the frame after the processing of a valid fetch of repository i
\* (main.py:177-254)
DownloadProcessed(d, i) ==
    [d EXCEPT !.record_list = Append(@, i),
              !.dataframes_workflows = Append(@, i),
              !.dataframes_commits = Append(@, i),
              !.saved = IF d.save /\ d.results_dir_valid THEN Append(@, i) ELSE @]

\* the frame after the report of an invalid fetch (main.py:260-265)
DownloadReported(d, i) ==
    [d EXCEPT !.could_not = Append(@, i), !.next = @ + 1]

\* request_json_from_github has returned to download (main.py:169-265)
DownloadAfterFetch ==
    /\ pc = "download_after_fetch"
    /\ LET d == [dl EXCEPT !.invalid = IF fetchRet.valid THEN @ ELSE @ \cup {dl.next}]
       IN  IF DownloadProceeds(fetchRet)
             THEN /\ dl' = DownloadProcessed(d, dl.next)
                  /\ pc' = "download_rate_limit"
             ELSE /\ dl' = DownloadReported(d, dl.next)
                  /\ pc' = "download_loop"
    /\ UNCHANGED <<mode, calc, Maximum_Request_Retries, last_page, rwc, rwcRet, jc,
                   pageRet, fj, fetchRet, rl, obs>>

\* ------------------------------------------------------------ the program
\* the steps of one fetch
Next ==
    \/ RwcAttempt
    \/ RwcReturn
    \/ JcAfterRwc
    \/ JcStatusRetry
    \/ JcReturn
    \/ FjEntry
    \/ FjAfterPage
    \/ FjPagesLoop
    \/ FjReturn
    \/ RateLimitCheck

\* the steps of the download command
NextDownload ==
    \/ Next
    \/ DownloadEntry
    \/ DownloadNext
    \/ DownloadAfterFetch

\* a direct call of request_json_from_github
Spec == Init /\ [][Next]_vars

\* a direct call of request_json_from_github that takes its next step
\* whenever it has one: the program is sequential and every step of it, a
\* sleep and a GET with its timeout included, ends
SpecUnbounded == InitUnbounded /\ [][Next]_vars /\ WF_vars(Next)

\* a run of the download command
SpecDownload == InitDownload /\ [][NextDownload]_vars

NextBackoff == BackoffCall

SpecBackoff == InitBackoff /\ [][NextBackoff]_vars

\* ------------------------------------------------------------- properties
\* the batches of a server with n pages, in request order
PagesInOrder(n) == [i \in 1..n |-> i]

\* C1: whenever request_json_from_github returns valid = False, the returned
\* list of pages is empty (partially accumulated pages are discarded).
C1_InvalidHasNoPages ==
    (fetchRet.returned /\ ~fetchRet.valid) => fetchRet.json_responses = << >>

\* C2: no exception crosses the boundary of request_json_from_github when a
\* page request fails: the failure is returned as valid = False.
C2_FailureIsReturned == pc # "raised"

\* C3: when every page request succeeds against a server with last_page pages
\* the fetch returns valid = True, and whenever it returns valid = True the
\* pages are exactly the batches 1..last_page in request order.
C3_PagesInRequestOrder ==
    (fetchRet.returned /\ (obs.all_valid \/ fetchRet.valid)) =>
        /\ fetchRet.valid
        /\ fetchRet.json_responses = PagesInOrder(last_page)

\* a three-page fetch returned valid, one of its pages having needed a retry
C3_Witness ==
    /\ fetchRet.returned /\ fetchRet.valid /\ obs.all_valid
    /\ Len(fetchRet.json_responses) = 3
    /\ obs.sum_retries > 0

\* C4: against an endpoint that always answers a non-success status, a fetch
\* with maximum_retries N >= 1 returns valid = False, no pages, N retries
\* and 2^N - 1 seconds of sleep.
C4_AlwaysErrorTelemetry ==
    (fetchRet.returned /\ obs.only_errors /\ fj.maximum_retries >= 1) =>
        /\ ~fetchRet.valid
        /\ fetchRet.json_responses = << >>
        /\ fetchRet.retries = fj.maximum_retries
        /\ fetchRet.sleep = Pow2(fj.maximum_retries) - 1

\* the fetch with two retries returned after error answers only
C4_Witness ==
    /\ fetchRet.returned /\ obs.only_errors /\ fj.maximum_retries = 2
    /\ fetchRet.retries = 2 /\ fetchRet.sleep = 3 /\ obs.gets = 3

\* C5: against a transport that raises on every attempt, request_with_caution
\* with maximum_retries N >= 1 returns (False, N, 2^N - 1, None).
C5_AlwaysRaisedTelemetry ==
    (pc = "jc_after_rwc" /\ rwc.maximum_retries >= 1 /\ rwc.raised = rwc.gets) =>
        rwcRet = Tuple4(FALSE, rwc.maximum_retries,
                        Pow2(rwc.maximum_retries) - 1, None)

\* request_with_caution returned after two attempts that both raised
C5_Witness ==
    /\ pc = "jc_after_rwc" /\ rwc.maximum_retries = 2
    /\ rwc.raised = 2 /\ rwc.gets = 2
    /\ rwcRet.sleep = 3

\* C6: with maximum_retries = 0 against an endpoint that always answers a
\* non-success status, the fetch returns valid = False, no pages, 0 retries
\* and 0 seconds, and it sleeps not at all.
C6_ZeroRetries ==
    (fetchRet.returned /\ fj.maximum_retries = 0 /\ obs.only_errors) =>
        /\ ~fetchRet.valid
        /\ fetchRet.json_responses = << >>
        /\ fetchRet.retries = 0
        /\ fetchRet.sleep = 0
        /\ obs.page_requests = 1 /\ obs.slept = 0

\* the fetch with no retry budget has returned
C6_Witness ==
    fetchRet.returned /\ fj.maximum_retries = 0 /\ obs.only_errors /\ pc = "done"

\* C7: the retry count and the sleep seconds the fetch returns are the sums of
\* the retries and of the sleeps of all its page requests.
C7_TelemetryIsSum ==
    fetchRet.returned =>
        /\ fetchRet.retries = obs.sum_retries
        /\ fetchRet.sleep = obs.sum_sleep

\* the fetch has ended: it returned, it raised or the process exited
FetchEnded == pc \in {"done", "raised", "exited", "rate_limit_raised"}

C9_OnlySuccessAccepted ==
    [][/\ (pageRet'.returned /\ pageRet'.valid) =>
              pageRet'.response.status = Success_Response
       /\ Len(fj'.json_responses) > Len(fj.json_responses) =>
              pageRet.response.status = Success_Response]_vars

\* a page request that needed a re-attempt after an error status returned valid
C9_Witness ==
    /\ pageRet.returned /\ pageRet.valid /\ pageRet.retries >= 1
    /\ Len(fj.json_responses) >= 1

\* the number of times x occurs in the sequence s
Count(s, x) == Cardinality({k \in 1..Len(s) : s[k] = x})

\* C10: for a repository whose fetch returned valid = False download produces
\* no record count, no workflows or commits dataframe and no file, and it
\* reports "could not download" exactly once.
C10_InvalidFetchIsSkipped ==
    \A i \in dl.invalid :
        /\ Count(dl.record_list, i) = 0
        /\ Count(dl.dataframes_workflows, i) = 0
        /\ Count(dl.dataframes_commits, i) = 0
        /\ Count(dl.saved, i) = 0
        /\ Count(dl.could_not, i) = 1

\* download is done, the first repository's fetch was invalid with a page kept,
\* the second repository's data was saved
C10_Witness ==
    /\ pc = "done" /\ dl.invalid = {1} /\ dl.saved = <<2>>
    /\ dl.could_not = <<1>>

\* C11: get_rate_limit_wait_time_and_wait waits (calls time.sleep) exactly
\* when remaining is strictly below the threshold, for exactly the distance to
\* the reset plus 2 seconds; with remaining at or above the threshold it
\* sleeps not at all.
C11_WaitsBelowThreshold ==
    rl.checked =>
        /\ rl.sleeps <=> rl.remaining < Threshold
        /\ rl.sleeps => rl.returned = rl.wait + Extra_Seconds
        /\ (rl.sleeps /\ ~rl.raised) => rl.slept = rl.wait + Extra_Seconds
        /\ ~rl.sleeps => rl.slept = 0

\* the monitor slept 5 seconds with 5 requests remaining
C11_Witness ==
    rl.checked /\ rl.remaining = 5 /\ rl.wait = 3 /\ rl.slept = 5
    /\ pc = "fj_pages_loop"

\* C12 as claimed: the value returned is the number of seconds slept; it is
\* 0 when remaining is not below the threshold.
C12_ReturnsSecondsSlept ==
    (rl.checked /\ ~rl.raised) => rl.returned = rl.slept

\* C12 as amended: the value returned is the computed wait, the distance to
\* the reset plus 2 seconds, whether or not the monitor slept.
C12_ReturnsComputedWait ==
    rl.checked => rl.returned = rl.wait + Extra_Seconds

\* the monitor returned 5 without sleeping
C12_Witness ==
    rl.checked /\ rl.remaining = 50 /\ rl.returned = 5 /\ rl.slept = 0
    /\ pc = "fj_pages_loop"

\* C13: with remaining below the threshold and a negative computed wait the
\* monitor sleeps zero seconds, raises no error and reports the negative value.
C13_NegativeWaitIsClamped ==
    (rl.checked /\ rl.remaining < Threshold /\ rl.wait + Extra_Seconds < 0) =>
        /\ ~rl.raised /\ pc # "rate_limit_raised"
        /\ rl.slept = 0
        /\ rl.returned = rl.wait + Extra_Seconds

\* the values returned for a factor of 1 and 1, 2, 3, 4, 5 retries
DoublingFromOne == <<1, 2, 4, 8, 16>>

\* C14: calculate_backoff_sleep_time(b, n) is b * 2^(n-1) for every factor b
\* and every number of retries n >= 1; a factor of 1 and n = 1..5 give
\* 1, 2, 4, 8, 16; two calls with the same arguments return the same value.
C14_BackoffDoubles ==
    (calc.number_of_retries >= 1 /\ calc.returned # <<>>) =>
        /\ \A i \in 1..Len(calc.returned) :
               calc.returned[i] =
                   calc.backoff_factor * 2 ^ (calc.number_of_retries - 1)
        /\ (calc.backoff_factor = 1 /\ calc.number_of_retries <= 5) =>
               calc.returned[1] = DoublingFromOne[calc.number_of_retries]
        /\ Len(calc.returned) = 2 => calc.returned[1] = calc.returned[2]

\* the function was called twice with a factor of 3 and 5 retries
C14_Witness ==
    /\ pc = "backoff_done" /\ calc.backoff_factor = 3
    /\ calc.number_of_retries = 5 /\ calc.returned = <<48, 48>>

\* C15 as claimed: a call with a number of retries below 1 is rejected with
\* an input error and returns no wait time.
C15_BelowOneIsRejected ==
    (calc.number_of_retries < 1 /\ pc # "backoff_entry") =>
        (pc = "backoff_raised" /\ calc.returned = <<>>)

\* C15 as amended: a call with a number of retries n below 1 is not rejected:
\* it returns the fraction b / 2^(1-n), half the factor for n = 0.
C15_BelowOneReturnsFraction ==
    (calc.number_of_retries < 1 /\ pc # "backoff_entry") =>
        /\ pc \in {"backoff_called", "backoff_done"}
        /\ calc.returned # <<>>
        /\ \A i \in 1..Len(calc.returned) :
               calc.returned[i] = [num |-> calc.backoff_factor,
                                   den |-> 2 ^ (1 - calc.number_of_retries)]
        /\ calc.number_of_retries = 0 =>
               calc.returned[1] = [num |-> calc.backoff_factor, den |-> 2]

\* the function returned 3/2 for a factor of 3 and 0 retries
C15_Witness ==
    /\ pc = "backoff_called" /\ calc.backoff_factor = 3
    /\ calc.number_of_retries = 0
    /\ calc.returned = <<[num |-> 3, den |-> 2]>>

\* C16: once a page request has come back invalid, request_json_from_github
\* issues no further HTTP GET, neither for a page nor to the rate-limit
\* endpoint, whatever Link relations the failing response carries.
C16_FailedIsTerminal ==
    ~obs.all_valid =>
        pc \notin {"rwc_loop", "jc_after_rwc", "jc_status_loop", "fj_after_page",
                   "rate_limit", "rate_limit_raised"}

\* C17: on non-success statuses request_json_from_github_with_caution makes
\* at most maximum_retries re-attempts after the initial attempt, and sleeps
\* 2^(k-1) seconds before the k-th of them, whatever the transport-level
\* retries inside the attempts.
C17_StatusLoopBackoff ==
    /\ [](jc.reattempts <= jc.maximum_retries)
    /\ [][(pc = "jc_status_loop" /\ pc' = "rwc_loop") =>
            /\ jc.current_response_status_code # Success_Response
            /\ jc'.reattempts = jc.reattempts + 1
            /\ obs'.slept = obs.slept + 2 ^ (jc'.reattempts - 1)
            /\ obs'.gets = obs.gets]_vars

\* the second re-attempt begins after a sleep of 2 seconds; the first
\* re-attempt had a transport-level retry inside it
C17_Witness ==
    /\ pc = "rwc_loop" /\ jc.reattempts = 2 /\ rwc.gets = 0
    /\ obs.gets = 3 /\ obs.slept = 4

\* C18: one call of request_with_caution issues at most maximum_retries GETs,
\* its counter starting at 1; after the k-th raised exception it sleeps
\* 2^(k-1) seconds and increments the counter; it stops at the first attempt
\* that returns a response.
C18_TransportLoopBackoff ==
    /\ [](pc \in {"rwc_loop", "jc_after_rwc"} =>
            /\ rwc.gets <= rwc.maximum_retries
            /\ rwc.request_retries_count = 1 + rwc.raised
            /\ rwc.running_sleep_time_in_seconds = 2 ^ rwc.raised - 1
            /\ rwc.gets = rwc.raised + (IF rwc.valid_response THEN 1 ELSE 0))
    /\ [][(pc = "rwc_loop" /\ rwc'.raised = rwc.raised + 1) =>
            /\ obs'.slept = obs.slept + 2 ^ (rwc'.raised - 1)
            /\ rwc'.request_retries_count = rwc.request_retries_count + 1]_vars
    /\ [][(pc = "rwc_loop" /\ rwc.valid_response) =>
            (pc' = "jc_after_rwc" /\ obs'.gets = obs.gets)]_vars

\* the call returns at the first response, after one raised exception
C18_Witness ==
    /\ pc = "jc_after_rwc" /\ rwc.maximum_retries = 2 /\ rwc.valid_response
    /\ rwc.raised = 1 /\ rwc.gets = 2 /\ rwcRet.retries = 1 /\ rwcRet.sleep = 1

\* a 200 has arrived and request_json_from_github_with_caution has not
\* returned yet
SuccessObtained ==
    \/ pc = "rwc_loop" /\ rwc.response.status = Success_Response
    \/ pc = "jc_after_rwc" /\ rwcRet.response.status = Success_Response
    \/ pc = "jc_status_loop" /\ jc.current_response_status_code = Success_Response

\* C19: request_json_from_github_with_caution returns as soon as a 200 has
\* arrived, without a further GET or sleep; when the very first attempt
\* answers 200 it returns (True, 0, 0, response) and has not slept.
C19_ReturnsOnSuccess ==
    /\ [][SuccessObtained =>
            /\ pc' \in {"jc_after_rwc", "jc_status_loop", "fj_after_page"}
            /\ obs'.gets = obs.gets
            /\ obs'.slept = obs.slept]_vars
    /\ []((pc = "fj_after_page" /\ obs.gets = 1
            /\ pageRet.response.status = Success_Response) =>
            /\ pageRet = Tuple4(TRUE, 0, 0, pageRet.response)
            /\ obs.slept = 0)

\* the first attempt answered 200 and the function has returned
C19_Witness ==
    /\ pc = "fj_after_page" /\ obs.gets = 1 /\ pageRet.valid
    /\ pageRet.response.status = Success_Response /\ pageRet.retries = 0

\* the function has returned a 200 that arrived after a re-attempt
C19_WitnessRetried ==
    /\ pc = "fj_after_page" /\ obs.gets = 2 /\ obs.slept = 1 /\ pageRet.valid

\* C20: whenever request_json_from_github_with_caution returns a failure, the
\* sleep it reports is the sum of all the back-off sleeps it performed and the
\* retry count it reports is the number of retries it performed, in the status
\* loop and in the transport loops inside it.
C20_FailureTelemetryIsComplete ==
    (pc = "fj_after_page" /\ ~pageRet.valid) =>
        /\ pageRet.sleep = obs.slept
        /\ pageRet.retries = obs.retried

\* the retry budget of the page request in progress: the caller's for the
\* first page, the default for a later page
PageBudget ==
    IF fj.phase = "first" THEN fj.maximum_retries ELSE Maximum_Request_Retries

\* C21 as claimed: the count a cautious requester returns is at least 1
\* whenever it made an HTTP attempt, also when the first attempt succeeds, and
\* never exceeds its maximum_retries.
C21_CountIsAttempts ==
    /\ (pc = "jc_after_rwc" /\ rwc.gets >= 1) =>
           (rwcRet.retries >= 1 /\ rwcRet.retries <= rwc.maximum_retries)
    /\ (pc = "fj_after_page" /\ obs.gets >= 1) =>
           (pageRet.retries >= 1 /\ pageRet.retries <= PageBudget)

\* C21 as amended: the count a cautious requester returns is a number of
\* retries, not of attempts: request_with_caution returns the number of
\* attempts that raised, both return 0 when the first attempt succeeds, and
\* the count never exceeds maximum_retries.
C21_CountIsRetries ==
    /\ pc = "jc_after_rwc" =>
           /\ rwcRet.retries = rwc.raised
           /\ rwcRet.retries <= rwc.maximum_retries
           /\ (rwc.gets = 1 /\ rwcRet.valid) => rwcRet.retries = 0
    /\ pc = "fj_after_page" =>
           /\ pageRet.retries <= PageBudget
           /\ (obs.gets = 1 /\ pageRet.valid) => pageRet.retries = 0

\* the first attempt answered 200 and the count returned is 0
C21_Witness ==
    /\ pc = "fj_after_page" /\ obs.gets = 1 /\ pageRet.valid
    /\ pageRet.retries = 0 /\ PageBudget = 2

\* C22: the first page request carries no page parameter (0 here) and the
\* i-th page request, i >= 2, carries page = i; a page is requested only when
\* the request before it has completed.
C22_PageParameterSequence ==
    pc \in {"rwc_loop", "jc_after_rwc", "jc_status_loop", "fj_after_page"} =>
        fj.params_page = IF fj.requests = 1 THEN 0 ELSE fj.requests

\* a page request or one of its retries is in progress
PageRequestInProgress ==
    pc \in {"rwc_loop", "jc_after_rwc", "jc_status_loop", "fj_after_page"}

\* the batches the fetch has kept so far
KeptBatches ==
    IF fetchRet.returned THEN Len(fetchRet.json_responses)
                         ELSE Len(fj.json_responses)

\* C23 as claimed: within one fetch the rate-limit monitor is invoked once
\* before the first page request (and then once after each later page fetch,
\* never while a page request is in progress): while the first page is
\* requested it has been invoked once.
C23_MonitorBeforeFirstPage ==
    (PageRequestInProgress /\ fj.requests = 1) => obs.rate_checks = 1

\* C23 as amended: within one fetch the rate-limit monitor is invoked once
\* after every page whose request was valid and whose batch was kept, the
\* first page included; it is not invoked before the first page request, nor
\* after an invalid page request, nor while a page request is in progress.
C23_MonitorAfterEachValidPage ==
    /\ [](pc \notin {"rjfg_entry", "exited"} =>
            obs.rate_checks = KeptBatches - (IF pc = "rate_limit" THEN 1 ELSE 0))
    /\ [](PageRequestInProgress /\ fj.requests = 1 => obs.rate_checks = 0)
    /\ [][PageRequestInProgress => obs'.rate_checks = obs.rate_checks]_vars
    /\ [][obs'.rate_checks # obs.rate_checks =>
            (pc = "rate_limit" /\ obs'.rate_checks = obs.rate_checks + 1)
            \/ pc = "rjfg_entry"]_vars

\* the monitor has been invoked twice, after the first and the second page
C23_Witness ==
    /\ pc = "fj_pages_loop" /\ obs.rate_checks = 2
    /\ Len(fj.json_responses) = 2 /\ obs.all_valid

\* C24: every call of request_json_from_github ends: it cannot loop forever,
\* also when a page after the first keeps failing on every attempt.
C24_FetchTerminates == <>FetchEnded

\* C25 as claimed: with maximum_retries = 0 the fetch still makes one HTTP
\* attempt, and reports 0 retries and 0 seconds.
C25_ZeroRetriesOneAttempt ==
    (fetchRet.returned /\ fj.maximum_retries = 0) =>
        /\ obs.gets = 1
        /\ fetchRet.retries = 0 /\ fetchRet.sleep = 0

\* C25 as amended: with maximum_retries = 0 the fetch makes no HTTP attempt
\* at all; it returns valid = False, no pages, 0 retries and 0 seconds.
C25_ZeroRetriesNoAttempt ==
    (mode = "fetch" /\ fj.maximum_retries = 0) =>
        /\ obs.gets = 0 /\ obs.slept = 0 /\ obs.rate_checks = 0
        /\ pc \in {"rjfg_entry", "rwc_loop", "jc_after_rwc", "fj_after_page",
                   "fj_return", "done"}
        /\ fetchRet.returned =>
               fetchRet = FetchTuple(FALSE, 0, 0, << >>)

\* the fetch with maximum_retries = 0 has returned without an HTTP attempt
C25_Witness ==
    /\ pc = "done" /\ fj.maximum_retries = 0 /\ obs.gets = 0
    /\ obs.page_requests = 1 /\ fetchRet.returned /\ ~fetchRet.valid

\* C26: the maximum_retries given to request_json_from_github bounds the
\* retries of every page request of the fetch, not only of the first: no page
\* request makes more status re-attempts, has more attempts raise in one
\* transport loop, or reports more retries than maximum_retries.
C26_BudgetBoundsEveryPage ==
    PageRequestInProgress =>
        /\ jc.reattempts <= fj.maximum_retries
        /\ rwc.raised <= fj.maximum_retries
        /\ pc = "fj_after_page" => pageRet.retries <= fj.maximum_retries

\* C27: when request_json_from_github_with_caution returns valid = True, the
\* retry count and the sleep seconds it reports include the transport-level
\* retries and back-off sleeps made before the successful response.
C27_SuccessTelemetryIsComplete ==
    (pc = "fj_after_page" /\ pageRet.valid) =>
        /\ pageRet.retries = obs.retried
        /\ pageRet.sleep = obs.slept

\* the GETs of the page request met k non-success statuses and then a 200
ErrorsThenSuccess(k) ==
    obs.statuses = [i \in 1..(k + 1) |->
                       IF i <= k THEN Server_Error ELSE Success_Response]

\* C28: when the endpoint answers k consecutive non-success statuses,
\* 1 <= k <= maximum_retries, and then a 200,
\* request_json_from_github_with_caution returns valid = True with the 200
\* response, k retries and 2^k - 1 seconds of sleep.
C28_ErrorsThenSuccessTelemetry ==
    pc = "fj_after_page" =>
        \A k \in 1..PageBudget :
            ErrorsThenSuccess(k) =>
                /\ pageRet.valid
                /\ pageRet.response.status = Success_Response
                /\ pageRet.retries = k
                /\ pageRet.sleep = 2 ^ k - 1
                /\ obs.slept = 2 ^ k - 1

\* the function has returned after two 502 answers and a 200
C28_Witness ==
    /\ pc = "fj_after_page" /\ ErrorsThenSuccess(2)
    /\ pageRet.retries = 2 /\ pageRet.sleep = 3

\* C29: one call of request_json_from_github_with_caution issues at most
\* maximum_retries * (maximum_retries + 1) HTTP GETs, whatever the server does.
C29_GetsAreBounded ==
    PageRequestInProgress =>
        /\ obs.gets <= PageBudget * (PageBudget + 1)
        /\ Len(obs.statuses) = obs.gets

\* a call with maximum_retries = 2 has issued 6 GETs
C29_Witness ==
    /\ pc = "fj_after_page" /\ PageBudget = 2 /\ obs.gets = 6
    /\ obs.statuses = <<0, Server_Error, 0, Server_Error, 0, Server_Error>>

\* the positions 1, 2, ..., n in order
Positions(n) == [i \in 1..n |-> i]

\* C30: download takes the repository URLs one after the other in the order
\* given, each once; after a URL that cannot be parsed and after a fetch that
\* returned invalid it goes on with the next URL; the rate-limit check between
\* repositories happens only after a fetch that returned valid.
C30_DownloadInOrder ==
    /\ [](mode = "download" =>
            /\ dl.visited = Positions(Len(dl.visited))
            /\ Len(dl.visited) \in {dl.next - 1, dl.next}
            /\ Len(dl.visited) <= Len(dl.repo_urls)
            /\ pc = "download_loop" => Len(dl.visited) = dl.next - 1
            /\ pc = "done" => dl.visited = Positions(Len(dl.repo_urls))
            /\ pc = "download_rate_limit" =>
                   (fetchRet.returned /\ fetchRet.valid))
    /\ [][(pc = "download_after_fetch" /\ ~fetchRet.valid) =>
            (pc' = "download_loop" /\ dl'.next = dl.next + 1
             /\ dl'.visited = dl.visited)]_vars
    /\ [][(pc = "download_loop" /\ dl.next <= Len(dl.repo_urls)
           /\ ~dl.repo_urls[dl.next]) =>
            (pc' = "download_loop" /\ dl'.next = dl.next + 1
             /\ dl'.visited = Append(dl.visited, dl.next))]_vars
    /\ [][pc' = "download_rate_limit" =>
            (pc = "download_after_fetch" /\ fetchRet.valid)]_vars

\* download has finished two repositories: the fetch of the first returned
\* invalid, the fetch of the second valid
C30_Witness ==
    /\ pc = "done" /\ mode = "download" /\ dl.repo_urls = <<TRUE, TRUE>>
    /\ dl.visited = <<1, 2>> /\ dl.could_not = <<1>> /\ dl.record_list = <<2>>

====
